---- MODULE Spec2Model ----
(***************************************************************************)
(* State-machine model of the HUD fetch pipeline                           *)
(* (src/src/real_estate_analytics/hud_pipeline.py): the rate-limited,      *)
(* retrying request executor, the resource fetchers, the county            *)
(* aggregator, the state processor with its sinks, and the driver loop.    *)
(* The program is single-threaded; pc is the position of its one thread.   *)
(***************************************************************************)
EXTENDS Integers, Sequences, FiniteSets, TLC

(* ------------------------------ bounds --------------------------------- *)
\* Number of distinct counties the API can list for a state.
NumCounties == 2
\* Number of entries of STATES_TO_PROCESS the driver is run over.
NumStates == 2

(* ------------------------- program constants --------------------------- *)
\* Python's None and the empty string.
None == "None"
EmptyStr == ""
MaxAttempts == 3
WaitMultiplier == 1
WaitMin == 4
WaitMax == 10
RequestDelay == 1
CountyDelay == 2
YEAR == "2024"
STORAGE_TYPE == "azure"
AllStates == <<"TX", "FL", "CO", "AZ", "CA">>
STATES_TO_PROCESS == SubSeq(AllStates, 1, NumStates)

(* ----------------------------- values ---------------------------------- *)
\* Python truth value of an optional string argument (None and "" are falsy).
Truthy(v) == v \notin {None, EmptyStr}
\* Python truth value of a dict: a dict is falsy only when it has no key.
DictTruthy(d) == DOMAIN d # {}

NoError == [type |-> "none", class |-> "none", status |-> 0]
ValueError(c) == [type |-> "ValueError", class |-> c, status |-> 0]
IOFailure(c) == [type |-> "IOError", class |-> c, status |-> 0]
\* The three exceptions _execute_request raises.
ShapeError == [type |-> "Exception", class |-> "shape", status |-> 0]
RateLimitError == [type |-> "Exception", class |-> "rate_limit", status |-> 0]
StatusError(code) == [type |-> "Exception", class |-> "status", status |-> code]
\* tenacity's RetryError wraps the exception of the last attempt.
RetryError(e) == [type |-> "RetryError", class |-> e.class, status |-> e.status]

NoRet == [kind |-> "none", value |-> <<>>, error |-> NoError]
Return(v) == [kind |-> "ok", value |-> v, error |-> NoError]
Raise(e) == [kind |-> "raise", value |-> <<>>, error |-> e]

(* ------------------------------ the API -------------------------------- *)
NoReq == [resource |-> "none", path |-> "none", id |-> None, params |-> None]
Url(resource, path, id) == [resource |-> resource, path |-> path, id |-> id]
Request(url, params) ==
    [resource |-> url.resource, path |-> url.path, id |-> url.id, params |-> params]

County(i) == [fips_code |-> "fips" \o ToString(i), county_name |-> "county" \o ToString(i)]
Counties == {County(i) : i \in 1..NumCounties}
\* The county lists the API may return: every sequence of distinct counties.
CountyLists ==
    {s \in UNION {[1..n -> Counties] : n \in 0..NumCounties} :
        \A i, j \in DOMAIN s : i # j => s[i] # s[j]}

\* The payloads the API may hold for a request: a county list for
\* listCounties, one record for a county's dataset, and an empty or a
\* one-record dataset for a state.
Record(r) == [resource |-> r.resource, id |-> r.id]
Payloads(r) ==
    IF r.path = "listCounties" THEN CountyLists
    ELSE IF r.path = "data" THEN {<<Record(r)>>}
    ELSE {<<>>, <<Record(r)>>}

Wrapped(p) == [type |-> "dict", keys |-> {"data"}, val |-> p]
Bare(p) == [type |-> "list", keys |-> {}, val |-> p]
Foo == [type |-> "dict", keys |-> {"foo"}, val |-> <<>>]
Scalar == [type |-> "str", keys |-> {}, val |-> <<>>]
ErrorCodes == {429, 500, 404}
\* One HTTP response: the status code and the decoded JSON body.
Responses(r) ==
    {[status_code |-> 200, json |-> Wrapped(p)] : p \in Payloads(r)}
    \cup {[status_code |-> 200, json |-> Bare(p)] : p \in Payloads(r)}
    \cup {[status_code |-> 200, json |-> Foo]}
    \cup {[status_code |-> c, json |-> Scalar] : c \in ErrorCodes}

(* ------------------------------ state ---------------------------------- *)
VARIABLES
    top,                  \* the operation the client invoked ("none" before it)
    pc,                   \* position of the program's single thread
    req,                  \* the request of the _make_request call in progress
    responses,            \* the responses that call received, one per attempt
    events,               \* the sleeps, GETs and backoff waits of the current fetch
    ret,                  \* outcome of the call that has just finished
    outcome,              \* outcome of the latest attempt of the call in progress
    fetch_args,           \* arguments of the fetcher call in progress
    result,               \* outcome of the client's operation, once it has ended
    blob_service_client,  \* TRUE once set_azure_connection has run
    idx,                  \* driver loop: index into STATES_TO_PROCESS
    state_code,           \* process_state / get_county_data argument
    storage_type,         \* process_state argument
    fmr_data,             \* process_state locals
    il_data,
    fmr_package,
    il_package,
    si,                   \* process_state: next statement of the save block
    counties,             \* get_county_data locals
    ci,                   \* get_county_data: index of the county being processed
    fmr,
    county_data,
    failed,               \* get_county_data: indices of the counties whose fetch raised
    writes,               \* every sink call made so far, in order
    log                   \* the state- and driver-level log messages, in order

frameVars == <<req, responses, outcome, fetch_args>>
callVars == <<req, responses, outcome, fetch_args, events, ret>>
psLocals == <<fmr_data, il_data, fmr_package, il_package, si>>
gcdLocals == <<counties, ci, fmr, county_data, failed>>
argVars == <<state_code, storage_type>>
vars == <<top, pc, req, responses, outcome, fetch_args, events, ret, result,
          blob_service_client, idx, state_code, storage_type, fmr_data, il_data,
          fmr_package, il_package, si, counties, ci, fmr, county_data, failed, writes, log>>

NoPackage == [state_level |-> <<>>, counties |-> <<>>]
NoArgs == [fn |-> "none", year |-> None, state |-> None, entity_id |-> None]
Args(fn, year, state, entity_id) ==
    [fn |-> fn, year |-> year, state |-> state, entity_id |-> entity_id]

Init ==
    /\ top = "none"
    /\ pc = "idle"
    /\ req = NoReq
    /\ responses = <<>>
    /\ events = <<>>
    /\ ret = NoRet
    /\ outcome = NoRet
    /\ fetch_args = NoArgs
    /\ result = NoRet
    /\ blob_service_client = FALSE
    /\ idx = 0
    /\ state_code = None
    /\ storage_type = None
    /\ fmr_data = <<>>
    /\ il_data = <<>>
    /\ fmr_package = NoPackage
    /\ il_package = NoPackage
    /\ si = 0
    /\ counties = <<>>
    /\ ci = 0
    /\ fmr = <<>>
    /\ county_data = <<>>
    /\ failed = {}
    /\ writes = <<>>
    /\ log = <<>>

\* The frame of a call that has been consumed by its caller.
ClearFrame ==
    /\ req' = NoReq
    /\ responses' = <<>>
    /\ outcome' = NoRet
    /\ fetch_args' = NoArgs

ClearCall ==
    /\ ClearFrame
    /\ events' = <<>>
    /\ ret' = NoRet

\* The locals of process_state and get_county_data die with their frames.
ClearPsLocals ==
    /\ fmr_data' = <<>>
    /\ il_data' = <<>>
    /\ fmr_package' = NoPackage
    /\ il_package' = NoPackage
    /\ si' = 0

ClearGcdLocals ==
    /\ counties' = <<>>
    /\ ci' = 0
    /\ fmr' = <<>>
    /\ county_data' = <<>>
    /\ failed' = {}

(* ----------------------- request executor ------------------------------ *)
\* Classify with the "data" membership test dropped: every dict is unwrapped.
ClassifyAnyDict(response) ==
    IF response.status_code = 200
    THEN IF response.json.type = "dict" \/ response.json.type = "list"
         THEN Return(response.json.val)
         ELSE Raise(ShapeError)
    ELSE IF response.status_code = 429
         THEN Raise(RateLimitError)
         ELSE Raise(StatusError(response.status_code))

\* The body of _execute_request after the GET: the outcome of one attempt.
Classify(response) ==
    IF response.status_code = 200
    THEN IF response.json.type = "dict" /\ "data" \in response.json.keys
         THEN Return(response.json.val)
         ELSE IF response.json.type = "list"
              THEN Return(response.json.val)
              ELSE Raise(ShapeError)
    ELSE IF response.status_code = 429
         THEN Raise(RateLimitError)
         ELSE Raise(StatusError(response.status_code))

RECURSIVE Pow2(_)
Pow2(n) == IF n <= 0 THEN 1 ELSE 2 * Pow2(n - 1)
Max(a, b) == IF a >= b THEN a ELSE b
Min(a, b) == IF a <= b THEN a ELSE b
\* wait_exponential(multiplier=1, min=4, max=10) after the n-th failed attempt.
WaitExponential(n) == Max(Max(0, WaitMin), Min(WaitMultiplier * Pow2(n - 1), WaitMax))
\* A retry policy that gives up one attempt early.
StopOneAttemptEarly(n) == n >= MaxAttempts - 1

\* stop_after_attempt(3)
StopAfterAttempt(n) == n >= MaxAttempts

Sleep(t) == [op |-> "sleep", t |-> t]
Get == [op |-> "get", t |-> 0]
Backoff(t) == [op |-> "backoff", t |-> t]

\* A retry decorator that swallows the last failure and returns an empty result.
RetryOutcomeFallback(out, n) ==
    IF out.kind = "ok" THEN out
    ELSE IF StopAfterAttempt(n) THEN Return(<<>>)
    ELSE NoRet

\* What the retry decorator does with the outcome of the n-th attempt:
\* return it, stop with RetryError, or leave the call running.
RetryOutcome(out, n) ==
    IF out.kind = "ok" THEN out
    ELSE IF StopAfterAttempt(n) THEN Raise(RetryError(out.error))
    ELSE NoRet

\* _make_request(url, params): start the retrying call.
MakeRequest(url, params) ==
    /\ req' = Request(url, params)
    /\ responses' = <<>>
    /\ outcome' = NoRet
    /\ ret' = NoRet
    /\ UNCHANGED events

\* An executor that sleeps for the rate limit before the first attempt only:
\* its retries go straight to the GET.
ExecuteRequestDelayOnce ==
    /\ req # NoReq
    /\ ret = NoRet
    /\ \E response \in Responses(req) :
        LET n == Len(responses) + 1
            out == RetryOutcome(Classify(response), n)
        IN /\ responses' = Append(responses, response)
           /\ outcome' = Classify(response)
           /\ ret' = out
           /\ events' = events
                        \o (IF n = 1 THEN <<Sleep(RequestDelay)>> ELSE <<>>)
                        \o <<Get>>
                        \o (IF out = NoRet THEN <<Backoff(WaitExponential(n))>> ELSE <<>>)
    /\ UNCHANGED <<top, pc, req, fetch_args, result, blob_service_client, idx, argVars,
                   psLocals, gcdLocals, writes, log>>

\* One attempt of _execute_request: rate-limit sleep, GET, classification,
\* then the retry decision and, when the call goes on, the backoff wait.
ExecuteRequest ==
    /\ req # NoReq
    /\ ret = NoRet
    /\ \E response \in Responses(req) :
        LET n == Len(responses) + 1
            out == RetryOutcome(Classify(response), n)
        IN /\ responses' = Append(responses, response)
           /\ outcome' = Classify(response)
           /\ ret' = out
           /\ events' = events \o <<Sleep(RequestDelay), Get>>
                        \o (IF out = NoRet THEN <<Backoff(WaitExponential(n))>> ELSE <<>>)
    /\ UNCHANGED <<top, pc, req, fetch_args, result, blob_service_client, idx, argVars,
                   psLocals, gcdLocals, writes, log>>

(* ------------------------- resource fetchers --------------------------- *)
\* Where a fetcher is called from: directly by the client, by process_state
\* (state level) or by get_county_data (county level).
FetcherCalled(name, site_ps, site_gcd, year, state, entity_id) ==
    \/ /\ pc = "idle" /\ top = "none"
       /\ top' = name /\ pc' = "direct"
    \/ /\ pc = site_ps
       /\ year = YEAR /\ state = state_code /\ entity_id = None
       /\ UNCHANGED <<top, pc>>
    \/ /\ pc = site_gcd
       /\ year = YEAR /\ state = None /\ entity_id = counties[ci].fips_code
       /\ UNCHANGED <<top, pc>>

\* A fetcher that skips the argument check and asks for the state's data.
IlRequestUnchecked(year, state, entity_id) ==
    IF Truthy(entity_id)
    THEN MakeRequest(Url("il", "data", entity_id), IF Truthy(year) THEN year ELSE None)
    ELSE MakeRequest(Url("il", "statedata", state), IF Truthy(year) THEN year ELSE None)

Params(year) == IF Truthy(year) THEN year ELSE None

FmrRequest(year, state, entity_id) ==
    IF Truthy(entity_id)
    THEN MakeRequest(Url("fmr", "data", entity_id), Params(year))
    ELSE IF Truthy(state)
         THEN MakeRequest(Url("fmr", "statedata", state), Params(year))
         ELSE /\ ret' = Raise(ValueError("missing_argument"))
              /\ UNCHANGED <<req, responses, outcome, events>>

IlRequest(year, state, entity_id) ==
    IF Truthy(entity_id)
    THEN MakeRequest(Url("il", "data", entity_id), Params(year))
    ELSE IF Truthy(state)
         THEN MakeRequest(Url("il", "statedata", state), Params(year))
         ELSE /\ ret' = Raise(ValueError("missing_argument"))
              /\ UNCHANGED <<req, responses, outcome, events>>

\* The argument values fetcher calls are made with.
Years == {None, YEAR}
StateArgs == {None, EmptyStr} \cup {AllStates[i] : i \in 1..NumStates}
EntityArgs == {None, EmptyStr} \cup {c.fips_code : c \in Counties}

GetFairMarketRents ==
    /\ req = NoReq /\ ret = NoRet
    /\ \E year \in Years, state \in StateArgs, entity_id \in EntityArgs :
        /\ FetcherCalled("get_fair_market_rents", "ps_fmr", "gcd_fmr", year, state, entity_id)
        /\ fetch_args' = Args("get_fair_market_rents", year, state, entity_id)
        /\ FmrRequest(year, state, entity_id)
    /\ UNCHANGED <<result, blob_service_client, idx, argVars, psLocals, gcdLocals, writes, log>>

GetIncomeLimits ==
    /\ req = NoReq /\ ret = NoRet
    /\ \E year \in Years, state \in StateArgs, entity_id \in EntityArgs :
        /\ FetcherCalled("get_income_limits", "ps_il", "gcd_il", year, state, entity_id)
        /\ fetch_args' = Args("get_income_limits", year, state, entity_id)
        /\ IlRequest(year, state, entity_id)
    /\ UNCHANGED <<result, blob_service_client, idx, argVars, psLocals, gcdLocals, writes, log>>

\* The client's direct fetcher call ends with the call's outcome.
DirectReturn ==
    /\ pc = "direct"
    /\ ret # NoRet
    /\ result' = ret
    /\ pc' = "done"
    /\ UNCHANGED <<top, callVars, blob_service_client, idx, argVars, psLocals, gcdLocals, writes, log>>

(* -------------------------- county aggregator -------------------------- *)
\* get_counties(state_code), called by get_county_data.
GetCounties ==
    /\ pc = "gcd_counties"
    /\ req = NoReq /\ ret = NoRet
    /\ MakeRequest(Url("fmr", "listCounties", state_code), None)
    /\ UNCHANGED fetch_args
    /\ UNCHANGED <<top, pc, result, blob_service_client, idx, argVars, psLocals,
                   gcdLocals, writes, log>>

\* The client calls get_county_data(state_code, year) directly.
CallGetCountyData ==
    /\ pc = "idle" /\ top = "none"
    /\ top' = "get_county_data"
    /\ pc' = "gcd_counties"
    /\ state_code' = AllStates[1]
    /\ UNCHANGED <<callVars, result, blob_service_client, idx, storage_type, psLocals,
                   gcdLocals, writes, log>>

\* counties = self.get_counties(state_code); county_data = []
GcdStoreCounties ==
    /\ pc = "gcd_counties"
    /\ ret.kind = "ok"
    /\ counties' = ret.value
    /\ county_data' = <<>>
    /\ ci' = 1
    /\ pc' = "gcd_loop"
    /\ ClearCall
    /\ UNCHANGED <<top, result, blob_service_client, idx, argVars, psLocals, fmr, failed,
                   writes, log>>

\* The loop head for the next county, up to the first time.sleep(2).
GcdNextCounty ==
    /\ pc = "gcd_loop"
    /\ ci <= Len(counties)
    /\ events' = <<Sleep(CountyDelay)>>
    /\ pc' = "gcd_fmr"
    /\ UNCHANGED <<top, frameVars, ret, result, blob_service_client, idx, argVars,
                   psLocals, gcdLocals, writes, log>>

\* fmr = ...; time.sleep(2)
GcdStoreFmr ==
    /\ pc = "gcd_fmr"
    /\ ret.kind = "ok"
    /\ fmr' = ret.value
    /\ ClearFrame
    /\ ret' = NoRet
    /\ events' = <<Sleep(CountyDelay)>>
    /\ pc' = "gcd_il"
    /\ UNCHANGED <<top, result, blob_service_client, idx, argVars, psLocals, counties, ci,
                   county_data, failed, writes, log>>

CountyPackage(county, f, il) ==
    [county_info |-> county, fair_market_rents |-> f, income_limits |-> il]

\* il = ...; county_data.append({...})
GcdAppendCounty ==
    /\ pc = "gcd_il"
    /\ ret.kind = "ok"
    /\ county_data' = Append(county_data, CountyPackage(counties[ci], fmr, ret.value))
    /\ fmr' = <<>>
    /\ ci' = ci + 1
    /\ pc' = "gcd_loop"
    /\ ClearCall
    /\ UNCHANGED <<top, result, blob_service_client, idx, argVars, psLocals, counties,
                   failed, writes, log>>

\* A try block that ends before the income-limit fetch.
CaughtInLoopFmrOnly(site) == site = "gcd_fmr"

\* The call sites inside the loop's try block.
CaughtInLoop(site) == site \in {"gcd_fmr", "gcd_il"}

\* An except branch that keeps what the county had fetched before the error.
GcdCountyExceptPartial ==
    /\ CaughtInLoop(pc)
    /\ ret.kind = "raise"
    /\ failed' = failed \cup {ci}
    /\ county_data' = Append(county_data, CountyPackage(counties[ci], fmr, <<>>))
    /\ fmr' = <<>>
    /\ ci' = ci + 1
    /\ pc' = "gcd_loop"
    /\ ClearCall
    /\ UNCHANGED <<top, result, blob_service_client, idx, argVars, psLocals, counties,
                   writes, log>>

\* except Exception: log the county's error and continue with the next one.
GcdCountyExcept ==
    /\ CaughtInLoop(pc)
    /\ ret.kind = "raise"
    /\ failed' = failed \cup {ci}
    /\ fmr' = <<>>
    /\ ci' = ci + 1
    /\ pc' = "gcd_loop"
    /\ ClearCall
    /\ UNCHANGED <<top, result, blob_service_client, idx, argVars, psLocals, counties,
                   county_data, writes, log>>

\* The packages process_state assembles from its three results.
StatePackage(state_level, cd) == [state_level |-> state_level, counties |-> cd]

\* return county_data: to the client, or to process_state, which assembles
\* the two packages and enters its save block.
GcdReturn ==
    /\ pc = "gcd_loop"
    /\ ci > Len(counties)
    /\ IF top = "get_county_data"
       THEN /\ result' = Return(county_data)
            /\ pc' = "done"
            /\ UNCHANGED <<psLocals, gcdLocals>>
       ELSE /\ fmr_package' = StatePackage(fmr_data, county_data)
            /\ il_package' = StatePackage(il_data, county_data)
            /\ si' = 1
            /\ pc' = "ps_save"
            /\ UNCHANGED <<result, fmr_data, il_data, gcdLocals>>
    /\ UNCHANGED <<top, callVars, blob_service_client, idx, argVars, writes, log>>

\* An exception outside the loop's try block (the county-list fetch) leaves
\* get_county_data; with the client as the caller the operation ends with it.
GcdRaise ==
    /\ pc \in {"gcd_counties", "gcd_fmr", "gcd_il"}
    /\ ~CaughtInLoop(pc)
    /\ top = "get_county_data"
    /\ ret.kind = "raise"
    /\ result' = ret
    /\ pc' = "done"
    /\ UNCHANGED <<top, callVars, blob_service_client, idx, argVars, psLocals, gcdLocals,
                   writes, log>>

(* --------------------------- state processor --------------------------- *)
Log(level, msg, state) == [level |-> level, msg |-> msg, state |-> state]

\* process_state(state_code, year, storage_type) up to its first fetch.
EnterProcessState(sc, st) ==
    /\ state_code' = sc
    /\ storage_type' = st
    /\ log' = Append(log, Log("info", "Processing", sc))
    /\ pc' = "ps_fmr"

StorageTypes == {"local", "azure", "both", "other"}

\* The client calls process_state directly on a constructed pipeline.
CallProcessState ==
    /\ pc = "idle" /\ top = "none"
    /\ top' = "process_state"
    /\ \E st \in StorageTypes : EnterProcessState(AllStates[1], st)
    /\ UNCHANGED <<callVars, result, blob_service_client, idx, psLocals, gcdLocals, writes>>

\* set_azure_connection(connection_string)
SetAzureConnection ==
    /\ pc = "idle" /\ top = "none"
    /\ ~blob_service_client
    /\ blob_service_client' = TRUE
    /\ UNCHANGED <<top, pc, callVars, result, idx, argVars, psLocals, gcdLocals, writes, log>>

\* fmr_data = self.get_fair_market_rents(year=year, state=state_code)
PsStoreFmr ==
    /\ pc = "ps_fmr"
    /\ ret.kind = "ok"
    /\ fmr_data' = ret.value
    /\ pc' = "ps_il"
    /\ ClearCall
    /\ UNCHANGED <<top, result, blob_service_client, idx, argVars, il_data, fmr_package,
                   il_package, si, gcdLocals, writes, log>>

\* il_data = ...; then the call of get_county_data
PsStoreIl ==
    /\ pc = "ps_il"
    /\ ret.kind = "ok"
    /\ il_data' = ret.value
    /\ pc' = "gcd_counties"
    /\ ClearCall
    /\ UNCHANGED <<top, result, blob_service_client, idx, argVars, fmr_data, fmr_package,
                   il_package, si, gcdLocals, writes, log>>

(* -------------------------------- sinks -------------------------------- *)
SaveStmt(fn, data, dataset_name) == [fn |-> fn, data |-> data, dataset_name |-> dataset_name]

\* A save block whose local branch forgets the "both" mode.
SavePlanLocalOnly(st) ==
    (IF st = "local"
     THEN <<SaveStmt("save_locally", "fmr_package", "fair_market_rents"),
            SaveStmt("save_locally", "il_package", "income_limits")>>
     ELSE <<>>)
    \o
    (IF st = "azure" \/ st = "both"
     THEN <<SaveStmt("save_to_azure", "fmr_package", "fair_market_rents"),
            SaveStmt("save_to_azure", "il_package", "income_limits"),
            SaveStmt("save_to_azure_parquet", "fmr_package", "fair_market_rents_parquet"),
            SaveStmt("save_to_azure_parquet", "il_package", "income_limits_parquet")>>
     ELSE <<>>)

\* The save block of process_state: its sink calls, in program order.
SavePlan(st) ==
    (IF st = "local" \/ st = "both"
     THEN <<SaveStmt("save_locally", "fmr_package", "fair_market_rents"),
            SaveStmt("save_locally", "il_package", "income_limits")>>
     ELSE <<>>)
    \o
    (IF st = "azure" \/ st = "both"
     THEN <<SaveStmt("save_to_azure", "fmr_package", "fair_market_rents"),
            SaveStmt("save_to_azure", "il_package", "income_limits"),
            SaveStmt("save_to_azure_parquet", "fmr_package", "fair_market_rents_parquet"),
            SaveStmt("save_to_azure_parquet", "il_package", "income_limits_parquet")>>
     ELSE <<>>)

LocalPath(dataset_name, year, state) ==
    "data/" \o dataset_name \o "/" \o year \o "/" \o state \o "/" \o state \o "_data.json"
BlobPath(dataset_name, year, state) ==
    dataset_name \o "/" \o year \o "/" \o state \o "/" \o state \o "_data.json"
ParquetPath(dataset_name, year, state) ==
    dataset_name \o "/" \o year \o "/" \o state \o "/" \o state \o "_data.parquet"

\* One sink call: where it wrote (or would have), which package it was
\* handed, and whether the write happened.
Write(fn, path, data, ok) ==
    [fn |-> fn, path |-> path, data |-> data, state |-> state_code, ok |-> ok]

\* A save block that swallows a sink's exception and goes on.
SaveSwallows(e) ==
    /\ si' = si + 1
    /\ UNCHANGED ret

\* A sink's exception is not caught in the save block: it leaves the block
\* with the statement unfinished.
SaveRaises(e) ==
    /\ ret' = Raise(e)
    /\ UNCHANGED si

PackageValue(name) == IF name = "fmr_package" THEN fmr_package ELSE il_package

AtSaveStmt(fn) ==
    /\ pc = "ps_save"
    /\ ret = NoRet
    /\ si <= Len(SavePlan(storage_type))
    /\ SavePlan(storage_type)[si].fn = fn

\* save_locally(data, dataset_name, year, state); io_ok is whether the
\* file system lets makedirs, open and the dump succeed.
SaveLocally ==
    /\ AtSaveStmt("save_locally")
    /\ \E io_ok \in BOOLEAN :
        LET stmt == SavePlan(storage_type)[si]
            path == LocalPath(stmt.dataset_name, YEAR, state_code)
        IN IF ~DictTruthy(PackageValue(stmt.data))
           THEN /\ writes' = Append(writes, Write(stmt.fn, path, stmt.data, FALSE))
                /\ SaveRaises(ValueError("no_data"))
           ELSE IF io_ok
                THEN /\ writes' = Append(writes, Write(stmt.fn, path, stmt.data, TRUE))
                     /\ si' = si + 1
                     /\ UNCHANGED ret
                ELSE /\ writes' = Append(writes, Write(stmt.fn, path, stmt.data, FALSE))
                     /\ SaveRaises(IOFailure("os"))
    /\ UNCHANGED <<top, pc, frameVars, events, result, blob_service_client, idx, argVars,
                   fmr_data, il_data, fmr_package, il_package, gcdLocals, log>>

\* save_to_azure(data, dataset_name, year, state); io_ok is whether the
\* upload succeeds.
SaveToAzure ==
    /\ AtSaveStmt("save_to_azure")
    /\ \E io_ok \in BOOLEAN :
        LET stmt == SavePlan(storage_type)[si]
            path == BlobPath(stmt.dataset_name, YEAR, state_code)
        IN IF ~blob_service_client
           THEN /\ writes' = Append(writes, Write(stmt.fn, path, stmt.data, FALSE))
                /\ SaveRaises(ValueError("no_connection"))
           ELSE IF io_ok
                THEN /\ writes' = Append(writes, Write(stmt.fn, path, stmt.data, TRUE))
                     /\ si' = si + 1
                     /\ UNCHANGED ret
                ELSE /\ writes' = Append(writes, Write(stmt.fn, path, stmt.data, FALSE))
                     /\ SaveRaises(IOFailure("upload"))
    /\ UNCHANGED <<top, pc, frameVars, events, result, blob_service_client, idx, argVars,
                   fmr_data, il_data, fmr_package, il_package, gcdLocals, log>>

\* save_to_azure_parquet(data, dataset_name, year, state); io_ok is whether
\* the conversion and the upload succeed.
SaveToAzureParquet ==
    /\ AtSaveStmt("save_to_azure_parquet")
    /\ \E io_ok \in BOOLEAN :
        LET stmt == SavePlan(storage_type)[si]
            path == ParquetPath(stmt.dataset_name, YEAR, state_code)
        IN IF ~blob_service_client
           THEN /\ writes' = Append(writes, Write(stmt.fn, path, stmt.data, FALSE))
                /\ SaveRaises(ValueError("no_connection"))
           ELSE IF io_ok
                THEN /\ writes' = Append(writes, Write(stmt.fn, path, stmt.data, TRUE))
                     /\ si' = si + 1
                     /\ UNCHANGED ret
                ELSE /\ writes' = Append(writes, Write(stmt.fn, path, stmt.data, FALSE))
                     /\ SaveRaises(IOFailure("upload"))
    /\ UNCHANGED <<top, pc, frameVars, events, result, blob_service_client, idx, argVars,
                   fmr_data, il_data, fmr_package, il_package, gcdLocals, log>>

\* The end of the try block: log success and return, to the client or to
\* the driver loop.
ProcessStateReturn ==
    /\ pc = "ps_save"
    /\ ret = NoRet
    /\ si > Len(SavePlan(storage_type))
    /\ log' = Append(log, Log("info", "Successfully processed", state_code))
    /\ ClearPsLocals
    /\ ClearGcdLocals
    /\ IF top = "main"
       THEN /\ idx' = idx + 1
            /\ pc' = "loop"
            /\ UNCHANGED result
       ELSE /\ result' = Return(<<>>)
            /\ pc' = "done"
            /\ UNCHANGED idx
    /\ UNCHANGED <<top, callVars, blob_service_client, argVars, writes>>

\* except Exception in process_state: log the error and re-raise it, to the
\* client or to the driver.
ProcessStateExcept ==
    /\ pc \in {"ps_fmr", "ps_il", "gcd_counties", "gcd_fmr", "gcd_il", "ps_save"}
    /\ ~CaughtInLoop(pc)
    /\ top \in {"main", "process_state"}
    /\ ret.kind = "raise"
    /\ log' = Append(log, Log("error", "Error processing", state_code))
    /\ ClearPsLocals
    /\ ClearGcdLocals
    /\ ClearFrame
    /\ events' = <<>>
    /\ IF top = "main"
       THEN /\ pc' = "main_except"
            /\ UNCHANGED <<ret, result>>
       ELSE /\ result' = ret
            /\ ret' = NoRet
            /\ pc' = "done"
    /\ UNCHANGED <<top, blob_service_client, idx, argVars, writes>>

(* ------------------------------- driver -------------------------------- *)
\* The script up to the loop: the credentials check, the pipeline and its
\* Azure connection.  env_ok is whether both environment variables are set.
Main ==
    /\ pc = "idle" /\ top = "none"
    /\ ~blob_service_client
    /\ top' = "main"
    /\ \E env_ok \in BOOLEAN :
        IF env_ok
        THEN /\ blob_service_client' = TRUE
             /\ idx' = 1
             /\ pc' = "loop"
             /\ UNCHANGED result
        ELSE /\ result' = Raise(ValueError("missing_environment"))
             /\ pc' = "done"
             /\ UNCHANGED <<blob_service_client, idx>>
    /\ UNCHANGED <<callVars, argVars, psLocals, gcdLocals, writes, log>>

\* for state in STATES_TO_PROCESS: pipeline.process_state(state, YEAR, STORAGE_TYPE)
DriverNextState ==
    /\ pc = "loop"
    /\ idx <= Len(STATES_TO_PROCESS)
    /\ EnterProcessState(STATES_TO_PROCESS[idx], STORAGE_TYPE)
    /\ UNCHANGED <<top, callVars, result, blob_service_client, idx, psLocals, gcdLocals, writes>>

\* The loop is over: the completion message.
DriverCompleted ==
    /\ pc = "loop"
    /\ idx > Len(STATES_TO_PROCESS)
    /\ log' = Append(log, Log("info", "Pipeline completed successfully!", None))
    /\ result' = Return(<<>>)
    /\ pc' = "done"
    /\ UNCHANGED <<top, callVars, blob_service_client, idx, argVars, psLocals, gcdLocals, writes>>

\* A driver whose handler sits inside the loop and moves on to the next state.
DriverExceptContinue ==
    /\ pc = "main_except"
    /\ log' = Append(log, Log("error", "Pipeline failed", None))
    /\ ret' = NoRet
    /\ idx' = idx + 1
    /\ pc' = "loop"
    /\ UNCHANGED <<top, frameVars, events, result, blob_service_client, argVars, psLocals,
                   gcdLocals, writes>>

\* except Exception in the driver: log and re-raise.
DriverExcept ==
    /\ pc = "main_except"
    /\ log' = Append(log, Log("error", "Pipeline failed", None))
    /\ result' = ret
    /\ ret' = NoRet
    /\ pc' = "done"
    /\ UNCHANGED <<top, frameVars, events, blob_service_client, idx, argVars, psLocals,
                   gcdLocals, writes>>

Next ==
    \/ GetFairMarketRents
    \/ GetIncomeLimits
    \/ ExecuteRequest
    \/ DirectReturn
    \/ GetCounties
    \/ CallGetCountyData
    \/ GcdStoreCounties
    \/ GcdNextCounty
    \/ GcdStoreFmr
    \/ GcdAppendCounty
    \/ GcdCountyExcept
    \/ GcdReturn
    \/ GcdRaise
    \/ CallProcessState
    \/ SetAzureConnection
    \/ PsStoreFmr
    \/ PsStoreIl
    \/ SaveLocally
    \/ SaveToAzure
    \/ SaveToAzureParquet
    \/ ProcessStateReturn
    \/ ProcessStateExcept
    \/ Main
    \/ DriverNextState
    \/ DriverCompleted
    \/ DriverExcept

Spec == Init /\ [][Next]_vars

(* ======================= properties of the executor ==================== *)
\* The shapes of a response, read off the response itself.
IsWrapped(r) == r.status_code = 200 /\ r.json.type = "dict" /\ "data" \in r.json.keys
IsBare(r) == r.status_code = 200 /\ r.json.type = "list"
WellShaped(r) == IsWrapped(r) \/ IsBare(r)
Transient(r) == r.status_code = 429 \/ r.status_code \in 500..599
FailureClass(r) ==
    IF r.status_code = 200 THEN "shape"
    ELSE IF r.status_code = 429 THEN "rate_limit" ELSE "status"
LastResponse == responses[Len(responses)]

\* C1: a call whose attempts so far all failed with 429 or 5xx, fewer than
\* three of them, is still running and makes another attempt; and when fewer
\* than three such failures are followed by a well-shaped 200, the call has
\* returned the unwrapped payload of that 200 response.
C1_RetryThenPayload ==
    LET n == Len(responses) IN
    /\ (n \in 1..2 /\ \A i \in 1..n : Transient(responses[i]))
          => (ret = NoRet /\ ENABLED ExecuteRequest)
    /\ (n \in 1..3 /\ (\A i \in 1..(n - 1) : Transient(responses[i]))
                   /\ WellShaped(responses[n]))
          => (ret.kind = "ok" /\ ret.value = responses[n].json.val)

\* Two transient failures (a 429, then a 500) followed by a 200 that wraps a
\* non-empty payload, which the call has returned.
C1_Witness ==
    /\ Len(responses) = 3
    /\ responses[1].status_code = 429
    /\ responses[2].status_code = 500
    /\ IsWrapped(responses[3])
    /\ responses[3].json.val # <<>>
    /\ ret.kind = "ok"
    /\ ret.value = responses[3].json.val

\* C2: a call never makes a fourth attempt; when all three attempts failed
\* the call has raised (no value is returned in place of the error), the
\* error carries the classification of the third failure (and its status
\* code when it is a status failure), and no further attempt is possible.
C2_ExhaustionRaisesLast ==
    /\ Len(responses) <= 3
    /\ (Len(responses) = 3 /\ \A i \in 1..3 : ~WellShaped(responses[i]))
          => /\ ret.kind = "raise"
             /\ ret.error.class = FailureClass(responses[3])
             /\ (FailureClass(responses[3]) = "status"
                   => ret.error.status = responses[3].status_code)
             /\ ~ENABLED ExecuteRequest

\* Three failures of three different classes, the last a 404: the call has
\* raised.
C2_Witness ==
    /\ Len(responses) = 3
    /\ responses[1].status_code = 429
    /\ responses[2].status_code = 200 /\ ~WellShaped(responses[2])
    /\ responses[3].status_code = 404
    /\ ret.kind = "raise"

\* C3: the outcome of an attempt is decided by its response alone: a 200
\* mapping with a data key returns the value under data, a 200 bare sequence
\* returns the sequence, any other 200 raises the unexpected-shape error, a
\* 429 raises the rate-limit error, and every other status raises a request
\* error carrying the status code; there is no other outcome.
C3_Classification ==
    responses # <<>> =>
        LET r == LastResponse IN
        /\ outcome.kind \in {"ok", "raise"}
        /\ IsWrapped(r) => (outcome.kind = "ok" /\ outcome.value = r.json.val)
        /\ IsBare(r) => (outcome.kind = "ok" /\ outcome.value = r.json.val)
        /\ (r.status_code = 200 /\ ~WellShaped(r))
              => (outcome.kind = "raise" /\ outcome.error.class = "shape")
        /\ r.status_code = 429
              => (outcome.kind = "raise" /\ outcome.error.class = "rate_limit")
        /\ r.status_code \notin {200, 429}
              => (outcome.kind = "raise" /\ outcome.error.class = "status"
                  /\ outcome.error.status = r.status_code)

\* A first attempt answered 200 with a mapping that has no data key, which
\* raised the unexpected-shape error.
C3_Witness ==
    /\ Len(responses) = 1
    /\ LastResponse.status_code = 200
    /\ LastResponse.json.type = "dict"
    /\ "data" \notin LastResponse.json.keys
    /\ outcome.kind = "raise"
    /\ outcome.error.class = "shape"

(* =================== properties of the county aggregator =============== *)
GcdSites == {"gcd_loop", "gcd_fmr", "gcd_il"}

\* The complete package of a county whose two fetches succeeded.
ExpectedCountyPackage(c) ==
    [county_info |-> c,
     fair_market_rents |-> <<[resource |-> "fmr", id |-> c.fips_code]>>,
     income_limits |-> <<[resource |-> "il", id |-> c.fips_code]>>]

\* The packages of the first k listed counties, in list order, without the
\* counties one of whose fetches raised.
RECURSIVE ExpectedCounties(_)
ExpectedCounties(k) ==
    IF k = 0 THEN <<>>
    ELSE IF k \in failed THEN ExpectedCounties(k - 1)
         ELSE Append(ExpectedCounties(k - 1), ExpectedCountyPackage(counties[k]))

\* The steps that end a county: a county is recorded as failed exactly when
\* one of its two fetches raised, and either way the loop goes on.
CountyStep ==
    /\ (pc \in {"gcd_fmr", "gcd_il"} /\ ret.kind = "raise")
          => (pc' = "gcd_loop" /\ ci' = ci + 1 /\ failed' = failed \cup {ci})
    /\ (pc = "gcd_fmr" /\ ret.kind = "ok")
          => (pc' = "gcd_il" /\ ci' = ci /\ failed' = failed)
    /\ (pc = "gcd_il" /\ ret.kind = "ok")
          => (pc' = "gcd_loop" /\ ci' = ci + 1 /\ failed' = failed)

\* C4: once the county list has been returned, get_county_data never raises:
\* whatever fetches fail, it holds, and at the end returns, exactly the
\* complete packages of the counties whose two fetches both succeeded, in
\* county-list order; a failed county contributes nothing and an empty list
\* gives an empty result.
C4_CountyAggregate ==
    /\ [](pc \in GcdSites
            => (county_data = ExpectedCounties(ci - 1) /\ failed \subseteq 1..(ci - 1)))
    /\ []((top = "get_county_data" /\ pc = "done" /\ ci >= 1)
            => /\ ci = Len(counties) + 1
               /\ result.kind = "ok"
               /\ result.value = ExpectedCounties(Len(counties)))
    /\ [][CountyStep]_vars

\* get_county_data has returned for a list of two counties of which the
\* first failed: the result is the second county's package alone.
C4_Witness ==
    /\ top = "get_county_data"
    /\ pc = "done"
    /\ Len(counties) = 2
    /\ failed = {1}
    /\ result.kind = "ok"
    /\ result.value = <<ExpectedCountyPackage(counties[2])>>

(* ==================== properties of the state processor ================ *)
\* C5: process_state in mode local with empty state-level data and no county
\* data raises the local sink's empty-package error and writes no file: no
\* statement of the save block completes and no write happens.
C5_EmptyPackageRejected ==
    (/\ top = "process_state"
     /\ storage_type = "local"
     /\ pc = "ps_save"
     /\ fmr_data = <<>> /\ il_data = <<>> /\ county_data = <<>>)
      => /\ si = 1
         /\ \A i \in DOMAIN writes : ~writes[i].ok
         /\ (writes # <<>> => (ret.kind = "raise" /\ ret.error.class = "no_data"))

InProcessState == top \in {"main", "process_state"}

\* C6 as stated: once the county-aggregate step has begun (both state-level
\* fetches succeeded), process_state only leaves it for the save block.
C6_CountyStepNeverFails ==
    [][(InProcessState /\ pc \in GcdSites \cup {"gcd_counties"})
         => pc' \in GcdSites \cup {"gcd_counties", "ps_save"}]_vars

\* C6, amended: once the county list has been fetched, process_state leaves
\* the county loop only for the save block, with both packages assembled from
\* the state-level data and the county aggregate; the county-list fetch is
\* the one request of the step whose failure leaves process_state, raising.
C6_PerCountyFailuresTolerated ==
    [][/\ (InProcessState /\ pc \in GcdSites)
          => /\ pc' \in GcdSites \cup {"ps_save"}
             /\ pc' = "ps_save"
                  => /\ fmr_package' = [state_level |-> fmr_data, counties |-> county_data]
                     /\ il_package' = [state_level |-> il_data, counties |-> county_data]
                     /\ si' = 1
       /\ (InProcessState /\ pc = "gcd_counties" /\ pc' # "gcd_counties")
          => IF ret.kind = "ok"
             THEN pc' = "gcd_loop"
             ELSE /\ pc' \in {"done", "main_except"}
                  /\ pc' = "done" => result'.kind = "raise"
                  /\ pc' = "main_except" => ret'.kind = "raise"]_vars

\* process_state has reached its save block with both packages assembled
\* although a county's fetch had failed.
C6_Witness ==
    /\ top = "process_state"
    /\ pc = "ps_save"
    /\ si = 1
    /\ failed # {}
    /\ Len(county_data) < Len(counties)
    /\ fmr_package.counties = county_data
    /\ il_package.counties = county_data

\* The sink calls made for the state being processed.
StateWrites == SelectSeq(writes, LAMBDA w : w.state = state_code)

\* C7 as stated: when a sink write of a process_state run has failed, every
\* sink write the storage mode selects has still been attempted exactly once
\* by the end of the run.
C7_SiblingSinksStillTried ==
    (/\ top = "process_state"
     /\ pc = "done"
     /\ \E i \in DOMAIN writes : ~writes[i].ok)
      => \A k \in DOMAIN SavePlan(storage_type) :
            Cardinality({i \in DOMAIN writes :
                            /\ writes[i].fn = SavePlan(storage_type)[k].fn
                            /\ writes[i].data = SavePlan(storage_type)[k].data}) = 1

\* C7, amended: the sink calls of a state are a prefix of the save block, in
\* program order, each made once; only the last call made can have failed,
\* and a failed call ends the run: process_state is raising, no further sink
\* is tried, and the client gets the error.
C7_SinkFailureAborts ==
    InProcessState =>
        LET plan == SavePlan(storage_type)
            ws == StateWrites
        IN /\ Len(ws) <= Len(plan)
           /\ \A i \in DOMAIN ws : ws[i].fn = plan[i].fn /\ ws[i].data = plan[i].data
           /\ \A i \in DOMAIN writes : ~writes[i].ok => i = Len(writes)
           /\ (writes # <<>> /\ ~writes[Len(writes)].ok)
                => /\ \/ pc = "ps_save" /\ ret.kind = "raise"
                      \/ pc = "main_except" /\ ret.kind = "raise"
                      \/ pc = "done" /\ result.kind = "raise"
                   /\ ~ENABLED SaveLocally
                   /\ ~ENABLED SaveToAzure
                   /\ ~ENABLED SaveToAzureParquet

\* Mode both: the third sink call failed after two good ones, the run has
\* ended with the error and the three remaining sinks were never tried.
C7_Witness ==
    /\ top = "process_state"
    /\ storage_type = "both"
    /\ pc = "done"
    /\ result.kind = "raise"
    /\ Len(writes) = 3
    /\ writes[1].ok /\ writes[2].ok /\ ~writes[3].ok

LocalFile(dataset, s) == "data/" \o dataset \o "/2024/" \o s \o "/" \o s \o "_data.json"
RemoteJson(dataset, s) == dataset \o "/2024/" \o s \o "/" \o s \o "_data.json"
RemoteColumnar(dataset, s) ==
    dataset \o "_parquet/2024/" \o s \o "/" \o s \o "_data.parquet"
Written(fn, path, data, s) == [fn |-> fn, path |-> path, data |-> data, state |-> s, ok |-> TRUE]
LocalSinks(s) ==
    {Written("save_locally", LocalFile("fair_market_rents", s), "fmr_package", s),
     Written("save_locally", LocalFile("income_limits", s), "il_package", s)}
RemoteSinks(s) ==
    {Written("save_to_azure", RemoteJson("fair_market_rents", s), "fmr_package", s),
     Written("save_to_azure", RemoteJson("income_limits", s), "il_package", s),
     Written("save_to_azure_parquet", RemoteColumnar("fair_market_rents", s), "fmr_package", s),
     Written("save_to_azure_parquet", RemoteColumnar("income_limits", s), "il_package", s)}
SelectedSinks(mode, s) ==
    IF mode = "local" THEN LocalSinks(s)
    ELSE IF mode = "azure" THEN RemoteSinks(s)
    ELSE IF mode = "both" THEN LocalSinks(s) \cup RemoteSinks(s)
    ELSE {}

\* C8: a process_state run that ends without error has written exactly the
\* sinks its storage mode selects, each once: the two local files for local,
\* the two remote JSON and two remote columnar objects for the remote mode
\* ("azure"), all six for both; the fair_market_rents paths were handed the
\* FMR package and the income_limits paths the IL package; and in the save
\* block the two packages hold the state's two datasets and the same county
\* aggregate.
C8_SinksMatchMode ==
    /\ (top = "process_state" /\ pc = "done" /\ result.kind = "ok")
          => /\ {writes[i] : i \in DOMAIN writes} = SelectedSinks(storage_type, state_code)
             /\ Len(writes) = Cardinality(SelectedSinks(storage_type, state_code))
    /\ (InProcessState /\ pc = "ps_save")
          => /\ fmr_package = [state_level |-> fmr_data, counties |-> county_data]
             /\ il_package = [state_level |-> il_data, counties |-> county_data]

\* A run in mode both has ended without error after six writes.
C8_Witness ==
    /\ top = "process_state"
    /\ storage_type = "both"
    /\ pc = "done"
    /\ result.kind = "ok"
    /\ Len(writes) = 6

(* ======================= properties of the fetchers ==================== *)
Absent(v) == v = None \/ v = EmptyStr

\* C9: a fetcher called with neither a state code nor an entity identifier
\* has raised the invalid-argument error with no request made, no GET and no
\* rate-limit delay; called with at least one of them it has handed the
\* executor the request for that entity (or, without one, that state), with
\* the year as the query parameter when a year was given.
C9_FetcherArguments ==
    fetch_args.fn # "none" =>
        LET a == fetch_args
            resource == IF a.fn = "get_fair_market_rents" THEN "fmr" ELSE "il"
        IN IF Absent(a.state) /\ Absent(a.entity_id)
           THEN /\ ret.kind = "raise"
                /\ ret.error.type = "ValueError"
                /\ req = NoReq
                /\ responses = <<>>
                /\ \A i \in DOMAIN events :
                      events[i].op \notin {"get", "backoff"} /\ events[i].t # RequestDelay
           ELSE /\ req.resource = resource
                /\ req.path = (IF Absent(a.entity_id) THEN "statedata" ELSE "data")
                /\ req.id = (IF Absent(a.entity_id) THEN a.state ELSE a.entity_id)
                /\ req.params = (IF Absent(a.year) THEN None ELSE a.year)
                /\ ret.error.type # "ValueError"

\* get_income_limits was called with a year but no state code and an empty
\* entity identifier: it raised without a request.
C9_Witness ==
    /\ fetch_args.fn = "get_income_limits"
    /\ fetch_args.year = YEAR
    /\ fetch_args.state = None
    /\ fetch_args.entity_id = EmptyStr
    /\ ret.kind = "raise"
    /\ ret.error.type = "ValueError"
    /\ req = NoReq

(* ======================== properties of the driver ===================== *)
Started == SelectSeq(log, LAMBDA m : m.msg = "Processing")
Succeeded == SelectSeq(log, LAMBDA m : m.msg = "Successfully processed")
Errors == SelectSeq(log, LAMBDA m : m.msg = "Error processing")
Completed == \E i \in DOMAIN log : log[i].msg = "Pipeline completed successfully!"

\* C10: the driver starts the configured states in order; once a state's
\* process_state has raised, that state stays the last one started, no request
\* is in progress or can start, no sink write belongs to a later state, and
\* the driver ends by re-raising the error; the completion message is logged
\* only when every configured state was processed without error.
C10_DriverStopsAtFirstFailure ==
    top = "main" =>
        /\ Len(Started) <= Len(STATES_TO_PROCESS)
        /\ \A i \in DOMAIN Started : Started[i].state = STATES_TO_PROCESS[i]
        /\ \A i \in DOMAIN writes : \E j \in DOMAIN Started : writes[i].state = Started[j].state
        /\ Len(Errors) <= 1
        /\ Len(Errors) = 1
             => /\ Errors[1].state = Started[Len(Started)].state
                /\ Len(Succeeded) = Len(Started) - 1
                /\ pc \in {"main_except", "done"}
                /\ req = NoReq
                /\ ~ENABLED ExecuteRequest
                /\ ~ENABLED GetFairMarketRents
                /\ ~ENABLED SaveToAzure
                /\ pc = "done" => (result.kind = "raise" /\ result.error.type # "none")
                /\ ~Completed
        /\ Completed
             => /\ Errors = <<>>
                /\ Len(Succeeded) = Len(STATES_TO_PROCESS)
                /\ \A i \in DOMAIN Succeeded : Succeeded[i].state = STATES_TO_PROCESS[i]
        /\ (pc = "done" /\ idx >= 1) => (result.kind = "ok" <=> Completed)

\* The first state failed at a sink after one good write: the driver has
\* ended with the error and the second state was never started.
C10_Witness ==
    /\ top = "main"
    /\ pc = "done"
    /\ result.kind = "raise"
    /\ Len(Started) = 1
    /\ Len(Errors) = 1
    /\ Len(writes) = 2
    /\ writes[1].ok /\ ~writes[2].ok
    /\ Len(STATES_TO_PROCESS) >= 2

(* ======================= properties of the rate limit ================== *)
\* The positions in the current fetch's events of the GETs and of the
\* completed rate-limit delays.
GetsIssued == {i \in DOMAIN events : events[i] = Get}
DelaysCompleted == {i \in DOMAIN events : events[i] = Sleep(RequestDelay)}

\* C11: every GET of the request executor, on the first attempt and on each
\* retry, comes directly after one completed rate-limit delay of request_delay
\* (1 time unit): each attempt made so far issued exactly one GET, the event
\* just before each GET is that delay, the completed delays are at least as
\* many as the GETs, and between any two GETs there is such a delay.
C11_DelayBeforeEveryGet ==
    /\ Cardinality(GetsIssued) = Len(responses)
    /\ \A i \in GetsIssued : i > 1 /\ events[i - 1] = Sleep(RequestDelay)
    /\ Cardinality(DelaysCompleted) >= Cardinality(GetsIssued)
    /\ \A i, j \in GetsIssued :
          i < j => \E k \in DelaysCompleted : i < k /\ k < j

\* A county-level fetch went through all its attempts: after the county delay
\* it made three GETs, the two retries after a backoff wait, and gave up.
C11_Witness ==
    /\ pc = "gcd_fmr"
    /\ Len(responses) = MaxAttempts
    /\ Cardinality(GetsIssued) = MaxAttempts
    /\ events[1] = Sleep(CountyDelay)
    /\ \E i \in DOMAIN events : events[i].op = "backoff"
    /\ ret.kind = "raise"
====
